---- MODULE Spec2Model ----
(***************************************************************************)
(* Model of the SAT question-bank scraper (src/data/scraper/scraper.py):   *)
(* the ingestion driver `main`, the detail cache `get_detail_with_cache`   *)
(* and the retrying fetcher `fetch_detail_strong`.                         *)
(*                                                                         *)
(* One behaviour is a sequence of runs of `main` over the same work queue  *)
(* (questions.json is written once by fetch_list and reused), sharing the  *)
(* cache directory and the persisted output file.  A run can end normally, *)
(* die of an uncaught exception, or be interrupted.  Interruptions are     *)
(* taken at the I/O boundaries of the loop (before an item, between two    *)
(* network requests, after the cache write) and in the middle of a cache   *)
(* write; an interruption in the middle of a dump of the output file is    *)
(* not modelled.                                                           *)
(***************************************************************************)
EXTENDS Integers, Sequences, FiniteSets, TLC

\* ---------------------------------------------------------------- bounds
MaxQueue == 3      \* longest work queue drawn in Init
MaxRuns  == 2      \* runs of main in one behaviour

\* ------------------------------------------------------ program constants
\* CHECKPOINT_EVERY is 50 in the source and the sweep's interval is 20: both
\* are scaled down to what the queue bound can reach.  The sweep's interval
\* is taken at the largest value that is still not above the primary one, so
\* that the sweep too holds records that are not yet on disk.
CHECKPOINT_EVERY       == 2
RETRY_CHECKPOINT_EVERY == 2
PRIMARY_TRIES          == 5
RETRY_TRIES            == 6

None    == "None"      \* Python None / absent key / empty string

ExtIds      == {"a", "b", "c"}
QuestionIds == {"q"}
UIds        == {"u"}
Keys        == ExtIds \cup QuestionIds \cup UIds \cup {"unknown"}

\* A list-stage record.  questionId and uId are read by the driver only when
\* external_id is falsy, so they are left None on the other records.
MetaSet ==
    { m \in [external_id : ExtIds \cup {None},
             questionId  : QuestionIds \cup {None},
             uId         : UIds \cup {None}] :
        /\ m.external_id # None => (m.questionId = None /\ m.uId = None)
        /\ ~(m.questionId # None /\ m.uId # None) }

\* What one session.post + r.json() of the detail endpoint can produce, by what
\* the code looks at:
\*   kind    - "json": a parsed body; "soft": a status in (429,500,502,503,504);
\*             "timeout": ReadTimeout / ConnectTimeout; "badjson": r.json()
\*             raises ValueError; "connerr": requests.ConnectionError (or the
\*             adapter's RetryError), which the except clause does not name
\*   marker  - obj["name"] or obj["Code"] is "NoSuchKey"
\*   text    - json.dumps(obj) contains "NoSuchKey"
\*   content - one of answerOptions / stem / stimulus is a key
\*   rev     - which revision of the content the upstream served
\* The same record shape describes a cache file: kind "json" for a file
\* holding a body, "absent" for no file, "corrupt" for a file json.load
\* rejects.
Revs == {1, 2}
Shape(kind) == [kind |-> kind, marker |-> FALSE, text |-> FALSE, content |-> FALSE, rev |-> 1]
Payloads ==
    { p \in [kind : {"json"}, marker : BOOLEAN, text : BOOLEAN,
             content : BOOLEAN, rev : Revs] :
        /\ p.marker => p.text
        /\ ~p.content => p.rev = 1 }
Faults    == { Shape(f) : f \in {"soft", "timeout", "badjson", "connerr"} }
Responses == Faults \cup Payloads
AnyAnswer    == Shape("any")
NoEntry      == Shape("absent")
CorruptEntry == Shape("corrupt")

RECURSIVE SeqsUpTo(_, _)
SeqsUpTo(S, n) ==
    IF n = 0 THEN {<<>>}
    ELSE LET shorter == SeqsUpTo(S, n - 1)
         IN  shorter \cup { Append(s, x) : s \in { t \in shorter : Len(t) = n - 1 }, x \in S }

VARIABLES
    records,          \* the work queue (questions.json), fixed over the runs
    upstream,         \* the detail endpoint: key -> its answer, or AnyAnswer
    cache,            \* CACHE_DIR: key -> cache file (see Shape)
    normalized_json,  \* NORMALIZED_JSON on disk (<<>> when the file is missing)
    failures_json,    \* FAILURES_JSON on disk
    run,              \* number of the current run of main
    pc,               \* where main stands
    i,                \* index of the next work item of the primary pass
    normalized,       \* main's list `normalized`
    seen_ids,         \* main's set `seen_ids`
    failures,         \* main's list `failures`: <<reason, identifier>>
    todo,             \* the sweep's shuffled list, what is left of it
    recovered,        \* the sweep's counter
    fetch,            \* the running fetch_detail_strong: key, tries, k
    loaded,           \* len(normalized) at startup ("Resuming: already have ...")
    net,              \* observation: key of the request the last step sent, or None
    cause,            \* observation: per entry of failures, the return that made it
    redo,             \* observation: ids appended by a primary pass that was interrupted
    completed,        \* observation: the previous run of main reached its end
    html,             \* html_to_plaintext_preserving_math_images: its argument
    plaintext,        \* ... and what it returned
    detail,           \* normalize_detail: its argument `detail`
    choices_norm,     \* ... and the list `choices_norm` it built
    returned          \* the function called has returned

\* The normalizer, a pure function, has its own specifications below; the
\* driver's steps leave its variables alone.
nvars == << html, plaintext, detail, choices_norm, returned >>

vars == << records, upstream, cache, normalized_json, failures_json, run, pc, i,
           normalized, seen_ids, failures, todo, recovered, fetch, loaded,
           net, cause, redo, completed, nvars >>

NoFetch == [key |-> None, tries |-> 0, k |-> 0]

NoDetail == [answerOptions |-> <<>>, correct_answer |-> <<>>, keys |-> <<>>]

Running == {"primary", "pfetch", "pnorm", "sweep", "sfetch"}
Halted  == {"done", "crashed", "interrupted"}

\* ------------------------------------------------------------ pure parts

\* is_nosuchkey on a parsed body (a dict).
is_nosuchkey(obj) == obj.marker \/ obj.text

\* Attempt with the content test of line 114 ahead of the sentinel test of
\* line 112.
Attempt_content_first(r, k, tries) ==
    IF r.kind = "connerr" THEN "raise"
    ELSE IF r.kind \in {"soft", "timeout", "badjson"}
         THEN IF k = tries - 1 THEN "exhausted" ELSE "retry"
    ELSE IF r.content THEN "data"
    ELSE IF is_nosuchkey(r) THEN "sentinel"
    ELSE IF k < tries - 1 THEN "retry"
    ELSE "exhausted"

\* Attempt whose last-attempt tests are off by one: one attempt too many.
Attempt_one_more(r, k, tries) ==
    IF r.kind = "connerr" THEN "raise"
    ELSE IF r.kind \in {"soft", "timeout", "badjson"}
         THEN IF k = tries THEN "exhausted" ELSE "retry"
    ELSE IF is_nosuchkey(r) THEN "sentinel"
    ELSE IF r.content THEN "data"
    ELSE IF k < tries THEN "retry"
    ELSE "exhausted"

\* Attempt without the test of line 112: a NoSuchKey body is a body like any
\* other.
Attempt_sentinel_unseen(r, k, tries) ==
    IF r.kind = "connerr" THEN "raise"
    ELSE IF r.kind \in {"soft", "timeout", "badjson"}
         THEN IF k = tries - 1 THEN "exhausted" ELSE "retry"
    ELSE IF r.content THEN "data"
    ELSE IF k < tries - 1 THEN "retry"
    ELSE "exhausted"

\* One pass of the body of fetch_detail_strong's loop, attempt k of tries, on
\* response r: "data" (return data), "sentinel" (return None at line 113),
\* "exhausted" (return None at line 120 or 123), "retry" (next k) or "raise"
\* (an exception leaves the function).
Attempt(r, k, tries) ==
    IF r.kind = "connerr" THEN "raise"
    ELSE IF r.kind \in {"soft", "timeout", "badjson"}
         THEN IF k = tries - 1 THEN "exhausted" ELSE "retry"
    ELSE IF is_nosuchkey(r) THEN "sentinel"
    ELSE IF r.content THEN "data"
    ELSE IF k < tries - 1 THEN "retry"
    ELSE "exhausted"

\* The identifier main files a record without external_id under (line 430).
FallbackId(meta) ==
    IF meta.questionId # None THEN meta.questionId
    ELSE IF meta.uId # None THEN meta.uId
    ELSE "unknown"

\* What normalize_detail keeps of meta for the driver: the external_id.
normalize_detail(external_id) == [external_id |-> external_id]

\* {q["external_id"] for q in rows if q.get("external_id")}
IdsOf(rows) == { rows[j].external_id : j \in DOMAIN rows } \ {None}

\* by_ext.get(ext, {}).get("external_id") of the sweep (lines 467, 474).
SweepMetaId(ext) ==
    IF \E j \in DOMAIN records : records[j].external_id = ext /\ ext # None
    THEN ext ELSE None

\* [ext for _, ext in failures if ext not in done]
RECURSIVE TodoOf(_, _)
TodoOf(fs, done) ==
    IF fs = <<>> THEN <<>>
    ELSE LET rest == TodoOf(Tail(fs), done)
         IN  IF Head(fs)[2] \in done THEN rest ELSE <<Head(fs)[2]>> \o rest

\* random.shuffle: every order of the list.
Shuffles(s) ==
    { [j \in 1..Len(s) |-> s[f[j]]] : f \in Permutations(1..Len(s)) }

\* Checkpoint with an interval one too long.
Checkpoint_late(rows, file) ==
    IF Len(rows) % (CHECKPOINT_EVERY + 1) = 0 THEN rows ELSE file

\* The dump after an append in the primary pass (lines 452-453).
Checkpoint(rows, file) ==
    IF Len(rows) % CHECKPOINT_EVERY = 0 THEN rows ELSE file

\* The dump after an append in the sweep (lines 481-482).
RetryCheckpoint(rows, count, file) ==
    IF count % RETRY_CHECKPOINT_EVERY = 0 THEN rows ELSE file

\* cache_exists that never finds the file.
cache_exists_never(external_id) == FALSE

\* cp.exists() of get_detail_with_cache (line 133).
cache_exists(external_id) == cache[external_id].kind # "absent"

\* What the endpoint may answer a request for key with.
Answers(key) ==
    IF upstream[key] = AnyAnswer THEN Responses ELSE {upstream[key]}

\* --------------------------------------------------------------- startup

\* The driver only compares identifiers, so a queue is drawn up to the names
\* of its external ids: the first one to occur is "a", the next new one "b",
\* then "c".
FirstUse(q, id) ==
    IF \E j \in DOMAIN q : q[j].external_id = id
    THEN CHOOSE j \in DOMAIN q :
            /\ q[j].external_id = id
            /\ \A h \in 1..(j - 1) : q[h].external_id # id
    ELSE Len(q) + 1

InOrderOfUse(q) ==
    /\ FirstUse(q, "a") <= FirstUse(q, "b")
    /\ FirstUse(q, "b") <= FirstUse(q, "c")

\* The state of a first run of main after lines 412-424, no file on disk yet.
Startup ==
    /\ records \in { q \in SeqsUpTo(MetaSet, MaxQueue) \ {<<>>} : InOrderOfUse(q) }
    /\ cache = [k \in Keys |-> NoEntry]
    /\ normalized_json = <<>>
    /\ failures_json = <<>>
    /\ run = 1
    /\ pc = "primary"
    /\ i = 1
    /\ normalized = <<>>
    /\ seen_ids = {}
    /\ failures = <<>>
    /\ todo = <<>>
    /\ recovered = 0
    /\ fetch = NoFetch
    /\ loaded = 0
    /\ net = None
    /\ cause = <<>>
    /\ redo = {}
    /\ completed = FALSE
    /\ html = <<>>
    /\ plaintext = <<>>
    /\ detail = NoDetail
    /\ choices_norm = <<>>
    /\ returned = FALSE

\* Any upstream: every request is answered in any of the ways of Responses.
Init ==
    /\ Startup
    /\ upstream = [k \in Keys |-> AnyAnswer]

\* The identifiers the driver can ask the endpoint for on this queue.
QueueKeys ==
    { IF records[j].external_id # None THEN records[j].external_id
      ELSE FallbackId(records[j]) : j \in DOMAIN records }

\* A steady upstream: every identifier has one answer, given to every request
\* for it in every run: its record, the NoSuchKey body, or a 5xx status.
SteadyAnswers ==
    { [Shape("json") EXCEPT !.content = TRUE],
      [Shape("json") EXCEPT !.marker = TRUE, !.text = TRUE],
      Shape("soft") }

InitSteady ==
    /\ Startup
    /\ upstream \in [Keys -> SteadyAnswers]
    /\ \A k \in Keys \ QueueKeys : upstream[k] = Shape("soft")

\* Restart that loads the output but leaves the resumption set empty.
Restart_forgetful ==
    /\ UNCHANGED nvars
    /\ pc \in {"done", "crashed", "interrupted"}
    /\ run < MaxRuns
    /\ run' = run + 1
    /\ pc' = "primary"
    /\ i' = 1
    /\ normalized' = normalized_json
    /\ seen_ids' = {}
    /\ loaded' = Len(normalized_json)
    /\ failures' = <<>>
    /\ cause' = <<>>
    /\ todo' = <<>>
    /\ recovered' = 0
    /\ fetch' = [key |-> None, tries |-> 0, k |-> 0]
    /\ net' = None
    /\ redo' = IF pc = "interrupted" THEN redo ELSE {}
    /\ completed' = (pc = "done")
    /\ UNCHANGED << records, upstream, cache, normalized_json, failures_json >>

\* A new run of main after the previous one ended: lines 412-424.
Restart ==
    /\ UNCHANGED nvars
    /\ pc \in Halted
    /\ run < MaxRuns
    /\ run' = run + 1
    /\ pc' = "primary"
    /\ i' = 1
    /\ normalized' = normalized_json
    /\ seen_ids' = IdsOf(normalized_json)
    /\ loaded' = Len(normalized_json)
    /\ failures' = <<>>
    /\ cause' = <<>>
    /\ todo' = <<>>
    /\ recovered' = 0
    /\ fetch' = NoFetch
    /\ net' = None
    /\ redo' = IF pc = "interrupted" THEN redo ELSE {}
    /\ completed' = (pc = "done")
    /\ UNCHANGED << records, upstream, cache, normalized_json, failures_json >>

\* The process is gone: nothing of main's memory is left.
Gone(how) ==
    /\ pc' = how
    /\ i' = 0
    /\ normalized' = <<>>
    /\ seen_ids' = {}
    /\ failures' = <<>>
    /\ cause' = <<>>
    /\ todo' = <<>>
    /\ recovered' = 0
    /\ fetch' = NoFetch
    /\ loaded' = 0

\* ---------------------------------------------------------- primary pass

Meta == records[i]

AtItem == pc = "primary" /\ i <= Len(records)

\* Lines 429-431: no usable external_id.
MissingId ==
    /\ UNCHANGED nvars
    /\ AtItem
    /\ Meta.external_id = None
    /\ failures' = Append(failures, <<"missing_external_id", FallbackId(Meta)>>)
    /\ cause' = Append(cause, "missing")
    /\ i' = i + 1
    /\ net' = None
    /\ UNCHANGED << records, upstream, completed, cache, normalized_json, failures_json, run, pc,
                    normalized, seen_ids, todo, recovered, fetch, loaded, redo >>

\* Lines 432-433: the identifier is in the resumption set.
SkipSeen ==
    /\ UNCHANGED nvars
    /\ AtItem
    /\ Meta.external_id # None
    /\ Meta.external_id \in seen_ids
    /\ i' = i + 1
    /\ net' = None
    /\ UNCHANGED << records, upstream, completed, cache, normalized_json, failures_json, run, pc,
                    normalized, seen_ids, failures, cause, todo, recovered,
                    fetch, loaded, redo >>

NeedsDetail ==
    /\ AtItem
    /\ Meta.external_id # None
    /\ Meta.external_id \notin seen_ids

\* Lines 441-454 for the item under external_id: append, remember, checkpoint.
Accept(external_id) ==
    /\ normalized' = Append(normalized, normalize_detail(external_id))
    /\ seen_ids' = seen_ids \cup {external_id}
    /\ normalized_json' = Checkpoint(normalized', normalized_json)
    /\ i' = i + 1
    /\ pc' = "primary"

\* get_detail_with_cache, lines 132-134: the file exists and loads.
CacheHit ==
    /\ UNCHANGED nvars
    /\ NeedsDetail
    /\ cache_exists(Meta.external_id)
    /\ cache[Meta.external_id].kind = "json"
    /\ Accept(Meta.external_id)
    /\ net' = None
    /\ UNCHANGED << records, upstream, completed, cache, failures_json, run, failures, cause, todo,
                    recovered, fetch, loaded, redo >>

\* get_detail_with_cache, lines 133-134: the file exists and json.load raises;
\* nothing catches it.
CacheUnreadable ==
    /\ UNCHANGED nvars
    /\ NeedsDetail
    /\ cache_exists(Meta.external_id)
    /\ cache[Meta.external_id].kind = "corrupt"
    /\ Gone("crashed")
    /\ net' = None
    /\ redo' = {}
    /\ UNCHANGED << records, upstream, completed, cache, normalized_json, failures_json, run >>

\* CacheMiss without the test of line 133: the fetch is made whatever the
\* cache holds.
CacheMiss_unconditional ==
    /\ UNCHANGED nvars
    /\ NeedsDetail
    /\ pc' = "pfetch"
    /\ fetch' = [key |-> Meta.external_id, tries |-> PRIMARY_TRIES, k |-> 0]
    /\ net' = None
    /\ UNCHANGED << records, upstream, completed, cache, normalized_json,
                    failures_json, run, i, normalized, seen_ids, failures, cause,
                    todo, recovered, loaded, redo >>

\* get_detail_with_cache, line 135: no file, enter fetch_detail_strong.
CacheMiss ==
    /\ UNCHANGED nvars
    /\ NeedsDetail
    /\ ~cache_exists(Meta.external_id)
    /\ pc' = "pfetch"
    /\ fetch' = [key |-> Meta.external_id, tries |-> PRIMARY_TRIES, k |-> 0]
    /\ net' = None
    /\ UNCHANGED << records, upstream, completed, cache, normalized_json, failures_json, run, i,
                    normalized, seen_ids, failures, cause, todo, recovered,
                    loaded, redo >>

\* One request of the primary pass's fetch_detail_strong and what follows it
\* up to the next request or the cache write (lines 105-126, 136-139, 436-439).
PrimaryRequest ==
    /\ UNCHANGED nvars
    /\ pc = "pfetch"
    /\ \E r \in Answers(fetch.key) :
         LET out == Attempt(r, fetch.k, fetch.tries) IN
         /\ net' = fetch.key
         /\ CASE out = "retry" ->
                   /\ fetch' = [fetch EXCEPT !.k = fetch.k + 1]
                   /\ UNCHANGED << cache, pc, i, normalized, seen_ids, failures,
                                   cause, todo, recovered, loaded, redo >>
              [] out \in {"sentinel", "exhausted"} ->
                   /\ failures' = Append(failures, <<"missing_or_timeout", fetch.key>>)
                   /\ cause' = Append(cause, out)
                   /\ i' = i + 1
                   /\ pc' = "primary"
                   /\ fetch' = NoFetch
                   /\ UNCHANGED << cache, normalized, seen_ids, todo, recovered,
                                   loaded, redo >>
              [] out = "data" ->
                   /\ cache' = [cache EXCEPT ![fetch.key] = r]
                   /\ pc' = "pnorm"
                   /\ UNCHANGED << i, normalized, seen_ids, failures, cause, todo,
                                   recovered, fetch, loaded, redo >>
              [] out = "raise" ->
                   /\ Gone("crashed")
                   /\ redo' = {}
                   /\ UNCHANGED cache
    /\ UNCHANGED << records, upstream, completed, normalized_json, failures_json, run >>

\* Lines 441-454 after a fetch that was written to the cache.
PrimaryNormalize ==
    /\ UNCHANGED nvars
    /\ pc = "pnorm"
    /\ Accept(fetch.key)
    /\ fetch' = NoFetch
    /\ net' = None
    /\ UNCHANGED << records, upstream, completed, cache, failures_json, run, failures, cause, todo,
                    recovered, loaded, redo >>

\* Lines 456-470: both dumps, then the sweep's list if anything failed.
EndPrimary ==
    /\ UNCHANGED nvars
    /\ pc = "primary"
    /\ i > Len(records)
    /\ normalized_json' = normalized
    /\ failures_json' = failures
    /\ IF failures = <<>>
       THEN pc' = "done" /\ todo' = <<>>
       ELSE pc' = "sweep" /\ todo' \in Shuffles(TodoOf(failures, IdsOf(normalized)))
    /\ recovered' = 0
    /\ net' = None
    /\ UNCHANGED << records, upstream, completed, cache, run, i, normalized, seen_ids, failures, cause,
                    fetch, loaded, redo >>

\* ---------------------------------------------------------- recovery sweep

\* Lines 473-475: the next identifier of todo goes to fetch_detail_strong.
SweepItem ==
    /\ UNCHANGED nvars
    /\ pc = "sweep"
    /\ todo # <<>>
    /\ pc' = "sfetch"
    /\ fetch' = [key |-> Head(todo), tries |-> RETRY_TRIES, k |-> 0]
    /\ net' = None
    /\ UNCHANGED << records, upstream, completed, cache, normalized_json, failures_json, run, i,
                    normalized, seen_ids, failures, cause, todo, recovered,
                    loaded, redo >>

\* One request of the sweep's fetch_detail_strong and what follows it up to
\* the next request or the next identifier (lines 105-126, 476-483).
SweepRequest ==
    /\ UNCHANGED nvars
    /\ pc = "sfetch"
    /\ \E r \in Answers(fetch.key) :
         LET out == Attempt(r, fetch.k, fetch.tries) IN
         /\ net' = fetch.key
         /\ CASE out = "retry" ->
                   /\ fetch' = [fetch EXCEPT !.k = fetch.k + 1]
                   /\ UNCHANGED << normalized_json, pc, i, normalized, seen_ids,
                                   failures, cause, todo, recovered, loaded, redo >>
              [] out \in {"sentinel", "exhausted"} ->
                   /\ todo' = Tail(todo)
                   /\ pc' = "sweep"
                   /\ fetch' = NoFetch
                   /\ UNCHANGED << normalized_json, i, normalized, seen_ids,
                                   failures, cause, recovered, loaded, redo >>
              [] out = "data" ->
                   /\ normalized' = Append(normalized, normalize_detail(SweepMetaId(fetch.key)))
                   /\ recovered' = recovered + 1
                   /\ normalized_json' = RetryCheckpoint(normalized', recovered', normalized_json)
                   /\ todo' = Tail(todo)
                   /\ pc' = "sweep"
                   /\ fetch' = NoFetch
                   /\ UNCHANGED << i, seen_ids, failures, cause, loaded, redo >>
              [] out = "raise" ->
                   /\ Gone("crashed")
                   /\ redo' = {}
                   /\ UNCHANGED normalized_json
    /\ UNCHANGED << records, upstream, completed, cache, failures_json, run >>

\* A failure the output does not make up for.
StillFailing(f) == f[2] \notin IdsOf(normalized)

\* EndSweep that also writes the failure report anew, without the failures
\* the sweep made up for.
EndSweep_rewrites_report ==
    /\ UNCHANGED nvars
    /\ pc = "sweep"
    /\ todo = <<>>
    /\ normalized_json' = normalized
    /\ failures_json' = SelectSeq(failures, StillFailing)
    /\ pc' = "done"
    /\ net' = None
    /\ UNCHANGED << records, upstream, completed, cache, run, i, normalized, seen_ids,
                    failures, cause, todo, recovered, fetch, loaded, redo >>

\* Line 485: the dump that ends the sweep.
EndSweep ==
    /\ UNCHANGED nvars
    /\ pc = "sweep"
    /\ todo = <<>>
    /\ normalized_json' = normalized
    /\ pc' = "done"
    /\ net' = None
    /\ UNCHANGED << records, upstream, completed, cache, failures_json, run, i, normalized, seen_ids,
                    failures, cause, todo, recovered, fetch, loaded, redo >>

\* ------------------------------------------------------------ interruption

\* The identifiers this run's primary pass has appended so far.
AppendedIds ==
    { normalized[j].external_id : j \in (loaded + 1)..Len(normalized) } \ {None}

\* The process is killed between two steps.
Interrupt ==
    /\ UNCHANGED nvars
    /\ pc \in Running
    /\ redo' = IF pc \in {"primary", "pfetch", "pnorm"} THEN AppendedIds ELSE {}
    /\ Gone("interrupted")
    /\ net' = None
    /\ UNCHANGED << records, upstream, completed, cache, normalized_json, failures_json, run >>

\* The process is killed inside json.dump of line 138: the request was
\* answered with a record, open(cp, "w") made the file, the body is cut short.
InterruptCacheWrite ==
    /\ UNCHANGED nvars
    /\ pc = "pfetch"
    /\ \E r \in Answers(fetch.key) :
         /\ Attempt(r, fetch.k, fetch.tries) = "data"
         /\ cache' = [cache EXCEPT ![fetch.key] = CorruptEntry]
    /\ net' = fetch.key
    /\ redo' = AppendedIds
    /\ Gone("interrupted")
    /\ UNCHANGED << records, upstream, completed, normalized_json, failures_json, run >>

Next ==
    \/ MissingId
    \/ SkipSeen
    \/ CacheHit
    \/ CacheUnreadable
    \/ CacheMiss
    \/ PrimaryRequest
    \/ PrimaryNormalize
    \/ EndPrimary
    \/ SweepItem
    \/ SweepRequest
    \/ EndSweep
    \/ Interrupt
    \/ InterruptCacheWrite
    \/ Restart

Spec == Init /\ [][Next]_vars

SpecSteady == InitSteady /\ [][Next]_vars

\* The steps of main itself: everything but a kill and a new start.
Run ==
    \/ MissingId
    \/ SkipSeen
    \/ CacheHit
    \/ CacheUnreadable
    \/ CacheMiss
    \/ PrimaryRequest
    \/ PrimaryNormalize
    \/ EndPrimary
    \/ SweepItem
    \/ SweepRequest
    \/ EndSweep

\* A process that is not killed takes its next step: every sleep and every
\* request of the loop is bounded (timeout=...), so main does not stay where
\* it is for ever.
SpecLive == Init /\ [][Next]_vars /\ WF_vars(Run)

\* ------------------------------------------------- a definite, changing upstream

\* The endpoint changes what it answers an identifier with.  Under Spec every
\* request may be answered in any way; here the answer a request gets is the
\* one the endpoint holds at that moment, which makes it a part of the state.
UpstreamChanges ==
    /\ UNCHANGED nvars
    /\ pc \in Running
    /\ \E k \in QueueKeys :
          \E r \in Responses \ {upstream[k]} :
              upstream' = [upstream EXCEPT ![k] = r]
    /\ net' = None
    /\ UNCHANGED << records, cache, normalized_json, failures_json, run, pc, i,
                    normalized, seen_ids, failures, todo, recovered, fetch,
                    loaded, cause, redo, completed >>

\* One work item, every answer of the endpoint to start with.
InitFetch ==
    /\ Startup
    /\ Len(records) = 1
    /\ \E answer \in [QueueKeys -> Responses] :
          upstream = [k \in Keys |-> IF k \in QueueKeys THEN answer[k]
                                     ELSE Shape("soft")]

NextFetch == Next \/ UpstreamChanges

SpecFetch == InitFetch /\ [][NextFetch]_vars

\* ====================================================== content normalizer

MaxNodes == 2      \* longest markup fragment, in top-level nodes
MaxKids  == 1      \* most nodes inside an svg or a region element

\* A string, as far as the code can tell strings apart: a sequence of words
\* and runs of whitespace.  <<>> is "", <<Space>> a string of blanks.  An
\* absent attribute (None) and an empty one ("") are both <<>>: the code only
\* asks whether the value is truthy.
Space == " "
IsWord(t) == t # Space

\* s.split()
split(s) == SelectSeq(s, IsWord)

\* " ".join(words)
RECURSIVE join(_)
join(words) ==
    IF words = <<>> THEN <<>>
    ELSE IF Len(words) = 1 THEN words
    ELSE <<Head(words), Space>> \o join(Tail(words))

\* compact_text(s) = " ".join(s.split())
compact_text(s) == join(split(s))

\* A parsed markup fragment is a sequence of nodes; a node is a string, an
\* img, an svg or an element with role="region".  svg and region hold nodes of
\* their own (kids).  Elements the function does not look for (p, span, ...)
\* only pass their strings through and are left out.
Node(tag, alt, aria_label, sr_only, s, kids) ==
    [tag |-> tag, alt |-> alt, aria_label |-> aria_label, sr_only |-> sr_only,
     s |-> s, kids |-> kids]
Text(s) == Node("text", <<>>, <<>>, FALSE, s, <<>>)

AltTexts == { <<>>, <<Space>>, <<"triangle", Space, "diagram">> }
Labels   == { <<>>, <<"label">> }
Leaves ==
    { Text(<<"x">>) }
        \cup { Node("img", a, l, FALSE, <<>>, <<>>) : a \in AltTexts, l \in Labels }
KidLists == SeqsUpTo(Leaves, MaxKids)
Nodes ==
    Leaves
        \cup { Node("svg", <<>>, l, FALSE, <<>>, k) : l \in Labels, k \in KidLists }
        \cup { Node("region", <<>>, l, c, <<>>, k) :
                 l \in Labels, c \in BOOLEAN, k \in KidLists }
Fragments == SeqsUpTo(Nodes, MaxNodes)

\* soup.get_text(" ", strip=True): the strings of the tree in document order,
\* each stripped, the empty ones dropped, the rest joined by one blank.
RECURSIVE strings(_)
strings(nodes) ==
    IF nodes = <<>> THEN <<>>
    ELSE LET n == Head(nodes)
             own == IF n.tag = "text" THEN <<n.s>> ELSE strings(n.kids)
         IN  own \o strings(Tail(nodes))

\* strip(): a string without its leading and trailing whitespace.
RECURSIVE lstrip(_)
lstrip(s) ==
    IF s # <<>> /\ Head(s) = Space THEN lstrip(Tail(s)) ELSE s

RECURSIVE rstrip(_)
rstrip(s) ==
    IF s # <<>> /\ s[Len(s)] = Space THEN rstrip(SubSeq(s, 1, Len(s) - 1)) ELSE s

strip(s) == rstrip(lstrip(s))

RECURSIVE join_strings(_)
join_strings(ss) ==
    IF ss = <<>> THEN <<>>
    ELSE IF Len(ss) = 1 THEN Head(ss)
    ELSE Head(ss) \o <<Space>> \o join_strings(Tail(ss))

NonEmpty(s) == s # <<>>

get_text(nodes) ==
    LET stripped == [j \in DOMAIN strings(nodes) |-> strip(strings(nodes)[j])]
    IN  join_strings(SelectSeq(stripped, NonEmpty))

\* Line 151: img.get("alt") or img.get("aria-label") or "[image]"
img_text(img) ==
    IF img.alt # <<>> THEN img.alt
    ELSE IF img.aria_label # <<>> THEN img.aria_label
    ELSE <<"[image]">>

\* Lines 150-152: every img of the tree becomes the string img_text gives.
RECURSIVE replace_imgs(_)
replace_imgs(nodes) ==
    [j \in DOMAIN nodes |->
        IF nodes[j].tag = "img" THEN Text(img_text(nodes[j]))
        ELSE IF nodes[j].tag = "text" THEN nodes[j]
        ELSE [nodes[j] EXCEPT !.kids = replace_imgs(nodes[j].kids)]]

\* Lines 155-157: every svg becomes its aria-label or "[svg graphic]".
replace_svgs(nodes) ==
    [j \in DOMAIN nodes |->
        IF nodes[j].tag = "svg"
        THEN Text(IF nodes[j].aria_label # <<>> THEN nodes[j].aria_label
                  ELSE <<"[svg", Space, "graphic]">>)
        ELSE nodes[j]]

\* Lines 160-163: a region with class sr-only or an aria-label becomes its
\* compacted text.
replace_regions(nodes) ==
    [j \in DOMAIN nodes |->
        IF nodes[j].tag = "region" /\ (nodes[j].sr_only \/ nodes[j].aria_label # <<>>)
        THEN Text(compact_text(get_text(nodes[j].kids)))
        ELSE nodes[j]]

\* html_to_plaintext_preserving_math_images, lines 144-165.
html_to_plaintext_preserving_math_images(fragment) ==
    IF fragment = <<>> THEN <<>>
    ELSE compact_text(get_text(replace_regions(replace_svgs(replace_imgs(fragment)))))

\* The driver at rest: the normalizer's specifications do not run it.
NoDriver ==
    /\ records = <<>>
    /\ upstream = [k \in Keys |-> AnyAnswer]
    /\ cache = [k \in Keys |-> NoEntry]
    /\ normalized_json = <<>>
    /\ failures_json = <<>>
    /\ run = 1
    /\ pc = "done"
    /\ i = 1
    /\ normalized = <<>>
    /\ seen_ids = {}
    /\ failures = <<>>
    /\ todo = <<>>
    /\ recovered = 0
    /\ fetch = NoFetch
    /\ loaded = 0
    /\ net = None
    /\ cause = <<>>
    /\ redo = {}
    /\ completed = FALSE

dvars == << records, upstream, cache, normalized_json, failures_json, run, pc, i,
            normalized, seen_ids, failures, todo, recovered, fetch, loaded,
            net, cause, redo, completed >>

InitPlaintext ==
    /\ NoDriver
    /\ html \in Fragments
    /\ plaintext = <<>>
    /\ detail = NoDetail
    /\ choices_norm = <<>>
    /\ returned = FALSE

\* One call of html_to_plaintext_preserving_math_images.
HtmlToPlaintext ==
    /\ ~returned
    /\ plaintext' = html_to_plaintext_preserving_math_images(html)
    /\ returned' = TRUE
    /\ UNCHANGED << dvars, html, detail, choices_norm >>

SpecPlaintext == InitPlaintext /\ [][HtmlToPlaintext]_vars

\* ------------------------------------------------------- answer options

MaxOptions == 3    \* longest list of answer options drawn freely

\* list(string.ascii_uppercase)
alpha == << "A", "B", "C", "D", "E", "F", "G", "H", "I", "J", "K", "L", "M",
            "N", "O", "P", "Q", "R", "S", "T", "U", "V", "W", "X", "Y", "Z" >>

\* The elements of a list.
Range(list) == { list[j] : j \in DOMAIN list }

\* An answer option of the detail record: ch.get("id") (None when absent) and
\* ch.get("content"), parsed.  One id reads like a letter, the markup holds
\* letters of its own, as text and as the alt text of an image.
OptionIds    == { None, "A", "k1" }
OptionMarkup ==
    { <<>>,
      << Text(<<"B">>) >>,
      << Node("img", <<"C">>, <<>>, FALSE, <<>>, <<>>) >> }
AnswerOptions == [id : OptionIds, content : OptionMarkup]

\* Lists of answer options: every list up to MaxOptions, and the lists of one
\* option repeated that are one longer than the alphabet.
OptionLists ==
    SeqsUpTo(AnswerOptions, MaxOptions)
        \cup { [j \in 1..(Len(alpha) + 1) |-> o] : o \in AnswerOptions }

\* detail["correct_answer"] and detail["keys"]: lists without repetition.
ListsOf(S) == { l \in SeqsUpTo(S, Cardinality(S)) : Cardinality(Range(l)) = Len(l) }

Details ==
    [answerOptions  : OptionLists,
     correct_answer : ListsOf({"A", "B"}),
     keys           : ListsOf({"A", "k1"})]

\* Line 279 with the index taken one too far.
letter_off_by_one(position) ==
    IF position + 1 <= Len(alpha) THEN alpha[position + 1] ELSE None

\* Line 279: letter = alpha[i] if i < len(alpha) else None, for the option at
\* position i + 1 of the list.
letter(position) ==
    IF position <= Len(alpha) THEN alpha[position] ELSE None

\* Line 283 with `and` for `or`.
is_ok_both(key, cid, answer_letters, correct_ids) ==
    (key \in Range(answer_letters)) /\ (cid \in Range(correct_ids))

\* Line 283: (letter in answer_letters) or (cid in correct_ids)
is_ok(key, cid, answer_letters, correct_ids) ==
    (key \in Range(answer_letters)) \/ (cid \in Range(correct_ids))

\* Lines 273-299 of normalize_detail: the list choices_norm.  The media list
\* of a choice (extract_media_from_html) is left out.
build_choices_norm(d) ==
    [j \in DOMAIN d.answerOptions |->
        [key     |-> letter(j),
         id      |-> d.answerOptions[j].id,
         text    |-> html_to_plaintext_preserving_math_images(d.answerOptions[j].content),
         html    |-> d.answerOptions[j].content,
         correct |-> is_ok(letter(j), d.answerOptions[j].id, d.correct_answer, d.keys)]]

InitChoices ==
    /\ NoDriver
    /\ html = <<>>
    /\ plaintext = <<>>
    /\ detail \in Details
    /\ choices_norm = <<>>
    /\ returned = FALSE

\* One call of normalize_detail.
NormalizeDetail ==
    /\ ~returned
    /\ choices_norm' = build_choices_norm(detail)
    /\ returned' = TRUE
    /\ UNCHANGED << dvars, html, plaintext, detail >>

SpecChoices == InitChoices /\ [][NormalizeDetail]_vars

\* ================================================================ claims

\* No two rows carry the same external identifier (rows without one apart).
NoDuplicateIds(rows) ==
    \A j, h \in DOMAIN rows :
        (j # h /\ rows[j].external_id = rows[h].external_id)
            => rows[j].external_id = None

\* Rows of `normalized` with external identifier x.
CountOf(x) == Cardinality({ j \in DOMAIN normalized : normalized[j].external_id = x })

\* C1: at the end of a run (primary pass and sweep), no two records of the
\* output set carry the same external identifier.
C1_UniqueAtEnd ==
    pc = "done" => NoDuplicateIds(normalized)

\* C2: a second run on the same queue and cache, started from the output of a
\* first run that reached its end, under an upstream that answers every
\* identifier the same way at every request, ends with an output of the size
\* the first run left and without duplicate identifiers.
C2_SecondRunSameSize ==
    (pc = "done" /\ completed)
        => (Len(normalized) = loaded /\ NoDuplicateIds(normalized))

\* C3: no step sends a network request for an identifier that has a cache
\* file at that moment.
C3_NoRequestWhenCached ==
    [][net' # None => cache[net'].kind = "absent"]_vars

\* C3 witness: a run that follows an interrupted one has taken again, with no
\* request, an identifier the interrupted run had fetched and cached.
C3_Witness ==
    /\ pc = "primary"
    /\ net = None
    /\ \E x \in redo : x \in AppendedIds /\ cache[x].kind = "json"

\* C4: a cache file, once there, is never overwritten, refreshed or removed,
\* by no step of this run nor of a later run.
C4_CacheWriteOnce ==
    [][\A k \in Keys : cache[k].kind # "absent" => cache'[k] = cache[k]]_vars

\* C4 witness: a later run has gone through its sweep and recovered a record
\* while the cache holds a file.
C4_Witness ==
    /\ run > 1
    /\ pc = "done"
    /\ recovered > 0
    /\ \E k \in Keys : cache[k].kind = "json"

\* C5: an identifier whose response in the primary pass matched the
\* NoSuchKey sentinel is not passed to the fetcher by the sweep.
C5_NotFoundNotRetried ==
    pc = "sfetch"
        => ~\E j \in DOMAIN failures :
               cause[j] = "sentinel" /\ failures[j][2] = fetch.key

\* C6: a work item without external identifier is recorded as a
\* missing-identifier failure, and the fetcher is never called on its behalf:
\* the primary pass fetches under the item's external identifier, the sweep
\* only identifiers that some failure other than a missing-identifier one
\* names.
C6_MissingIdNeverFetched ==
    /\ \A j \in 1..(i - 1) :
          records[j].external_id = None
              => \E h \in DOMAIN failures :
                    failures[h] = <<"missing_external_id", FallbackId(records[j])>>
    /\ pc = "pfetch" => (fetch.key = records[i].external_id /\ fetch.key # None)
    /\ pc = "sfetch"
          => \E h \in DOMAIN failures :
                failures[h][2] = fetch.key /\ failures[h][1] # "missing_external_id"

\* Records of `normalized` that the output file does not hold yet.
Unsaved == Len(normalized) - Len(normalized_json)

\* C7: whenever the driver is about to take the next work item, in the
\* primary pass or in the sweep, resumed or not, at most CHECKPOINT_EVERY - 1
\* records of the output set are not in the output file.
C7_CheckpointBound ==
    pc \in {"primary", "sweep"} => Unsaved <= CHECKPOINT_EVERY - 1

\* C7 witness: a run resumed from an output whose size is no multiple of the
\* interval has appended more than one record and holds CHECKPOINT_EVERY - 1
\* unsaved ones.
C7_Witness ==
    /\ pc = "primary"
    /\ loaded % CHECKPOINT_EVERY # 0
    /\ Len(normalized) > loaded + 1
    /\ Unsaved = CHECKPOINT_EVERY - 1

C9_ReasonsDistinguished ==
    \A j, h \in DOMAIN failures :
        (cause[j] = "sentinel" /\ cause[h] = "exhausted")
            => failures[j][1] # failures[h][1]

\* C10: every body in the cache was classified as a record: it does not
\* match the NoSuchKey sentinel and has one of answerOptions, stem, stimulus.
C10_NoSentinelCached ==
    \A k \in Keys :
        cache[k].kind = "json" => (~is_nosuchkey(cache[k]) /\ cache[k].content)

\* C10 witness: the cache holds a body while a response of the same run was
\* classified as the sentinel.
C10_Witness ==
    /\ \E k \in Keys : cache[k].kind = "json"
    /\ \E j \in DOMAIN failures : cause[j] = "sentinel"

\* C12: at an item whose cache file exists but does not load, the driver
\* goes to the fetcher for that identifier as on a miss; the run does not end
\* there (a kill from outside apart).
C12_CorruptCacheIsMiss ==
    [][(NeedsDetail /\ cache[Meta.external_id].kind = "corrupt" /\ pc' # "interrupted")
          => (pc' = "pfetch" /\ fetch'.key = Meta.external_id)]_vars

\* C19: a record the fetcher returns is in the cache, under the identifier
\* it was fetched under, when the step that normalizes and appends it is
\* done, in the primary pass and in the sweep alike.
C19_CachedBeforeNormalized ==
    [][(pc \in {"pnorm", "sfetch"} /\ Len(normalized') = Len(normalized) + 1)
          => cache'[fetch.key].kind = "json"]_vars

\* The rows of `normalized` the sweep of this run appended.
Recovered == (Len(normalized) - recovered + 1)..Len(normalized)

\* C20: no step of the sweep changes the failure list or the failure report;
\* from the end of the primary pass to the end of the run the report is the
\* failure list, so at the end every identifier the sweep recovered is in the
\* output and in the report.
C20_SweepLeavesFailures ==
    /\ [][(pc \in {"sweep", "sfetch"} /\ pc' \in {"sweep", "sfetch", "done"})
            => (failures' = failures /\ failures_json' = failures_json)]_vars
    /\ [](pc \in {"sweep", "sfetch", "done"} => failures_json = failures)
    /\ [](pc = "done"
            => \A j \in Recovered :
                  normalized[j].external_id # None
                      => \E h \in DOMAIN failures_json :
                            failures_json[h][2] = normalized[j].external_id)

\* C20 witness: the run has ended after a sweep that recovered an identifier,
\* which the output and the report both hold.
C20_Witness ==
    /\ pc = "done"
    /\ recovered > 0
    /\ \E j \in Recovered :
          /\ normalized[j].external_id # None
          /\ \E h \in DOMAIN failures_json :
                failures_json[h][2] = normalized[j].external_id

\* The primary pass is under way.
InPrimary == pc \in {"primary", "pfetch", "pnorm"}

\* Work item j has left the pending state: its identifier is in the output,
\* or a failure names the item.
Settled(j) ==
    IF records[j].external_id = None
    THEN \E h \in DOMAIN failures :
            failures[h] = <<"missing_external_id", FallbackId(records[j])>>
    ELSE \/ records[j].external_id \in IdsOf(normalized)
         \/ \E h \in DOMAIN failures : failures[h][2] = records[j].external_id

\* C16: a primary pass that is not killed from outside reaches its end,
\* whatever the queue, the upstream and the cache do, and once it has, every
\* work item has left the pending state.
C16_EveryItemSettles ==
    /\ (InPrimary ~> pc \in {"sweep", "done", "interrupted"})
    /\ [](pc \in {"sweep", "sfetch", "done"} => \A j \in DOMAIN records : Settled(j))

\* ------------------------------------------ one call of fetch_detail_strong
\* (formulas for specifications with a definite upstream: SpecFetch)

\* The driver is inside fetch_detail_strong.
InCall == pc \in {"pfetch", "sfetch"}

\* This step sends a request of the running call.
Requested == InCall /\ net' # None

\* What that request is answered with.
Response == upstream[net']

\* The call goes on to its next attempt.
NextAttempt ==
    /\ pc' = pc
    /\ fetch' = [fetch EXCEPT !.k = fetch.k + 1]

\* The call returns without a record, and the driver goes on: the primary
\* pass files the failure, the sweep passes to the next identifier.
ReturnsNoRecord ==
    \/ /\ pc = "pfetch"
       /\ pc' = "primary"
       /\ failures' = Append(failures, <<"missing_or_timeout", fetch.key>>)
       /\ cache' = cache
       /\ normalized' = normalized
    \/ /\ pc = "sfetch"
       /\ pc' = "sweep"
       /\ todo' = Tail(todo)
       /\ normalized' = normalized

\* C11: a request of fetch_detail_strong that ends in a network timeout or a
\* connection failure is followed by the next attempt while attempts remain,
\* and by the return of the unavailable outcome on the last attempt; it never
\* ends the call, and with it the run, with an error.
C11_TransientFaultsStayInside ==
    [][(Requested /\ Response.kind \in {"timeout", "connerr"})
          => IF fetch.k < fetch.tries - 1 THEN NextAttempt ELSE ReturnsNoRecord]_vars

\* A parsed body with none of answerOptions, stem, stimulus, and no sentinel.
MissingFields(r) == r.kind = "json" /\ ~is_nosuchkey(r) /\ ~r.content

C18_SentinelReturnsAtOnce ==
    [][(Requested /\ Response.kind = "json" /\ is_nosuchkey(Response))
          => ReturnsNoRecord]_vars

\* C18 witness: the primary pass has just filed the failure of a call whose
\* last request the endpoint answered with the sentinel.
C18_Witness ==
    /\ pc = "primary"
    /\ net # None
    /\ is_nosuchkey(upstream[net])
    /\ cause # <<>>
    /\ cause[Len(cause)] = "sentinel"

\* --------------------------------------------------------- plaintext mirror
\* (formulas for SpecPlaintext)

\* Every img of a fragment, those inside svg and region elements included.
RECURSIVE AllImgs(_)
AllImgs(nodes) ==
    IF nodes = <<>> THEN {}
    ELSE (IF Head(nodes).tag = "img" THEN {Head(nodes)} ELSE AllImgs(Head(nodes).kids))
             \cup AllImgs(Tail(nodes))

\* The label the claim gives an image: alt text, else aria-label, else the
\* placeholder.
AccessibleLabel(img) ==
    IF img.alt # <<>> THEN img.alt
    ELSE IF img.aria_label # <<>> THEN img.aria_label
    ELSE <<"[image]">>

\* token occurs in text, as a run of its words.
Occurs(token, text) ==
    \E k \in 0..(Len(text) - Len(token)) :
        SubSeq(text, k + 1, k + Len(token)) = token

\* C15: the plaintext of a fragment holds, for every image of the fragment,
\* the image's label (alt text when non-empty, else aria-label when
\* non-empty, else [image]), and that token is not empty.
C15_ImageTokenInPlaintext ==
    returned
        => \A img \in AllImgs(html) :
              /\ split(AccessibleLabel(img)) # <<>>
              /\ Occurs(compact_text(AccessibleLabel(img)), plaintext)

\* ------------------------------------------------------- normalized choices
\* (formulas for SpecChoices)

\* The option at position j has a letter, and the accepted letters hold it.
LetterAccepted(j) ==
    /\ j <= Len(alpha)
    /\ \E h \in DOMAIN detail.correct_answer : detail.correct_answer[h] = alpha[j]

\* The accepted identifiers hold the identifier of the option at position j.
IdAccepted(j) ==
    \E h \in DOMAIN detail.keys : detail.keys[h] = detail.answerOptions[j].id

\* C13: the correct flag of every normalized choice is true exactly when the
\* letter of its position is an accepted letter or its upstream identifier is
\* an accepted identifier.
C13_CorrectIffLetterOrId ==
    returned
        => \A j \in DOMAIN choices_norm :
              choices_norm[j].correct <=> (LetterAccepted(j) \/ IdAccepted(j))

\* C13 witness: one choice is correct by its letter alone, another by its
\* identifier alone, a third by neither.
C13_Witness ==
    /\ returned
    /\ \E j \in DOMAIN choices_norm :
          choices_norm[j].correct /\ LetterAccepted(j) /\ ~IdAccepted(j)
    /\ \E j \in DOMAIN choices_norm :
          choices_norm[j].correct /\ ~LetterAccepted(j) /\ IdAccepted(j)
    /\ \E j \in DOMAIN choices_norm :
          ~choices_norm[j].correct /\ ~LetterAccepted(j) /\ ~IdAccepted(j)

\* The normalized choices are the options in upstream order, as many.
SameOrderAndCount ==
    /\ Len(choices_norm) = Len(detail.answerOptions)
    /\ \A j \in DOMAIN choices_norm :
          /\ choices_norm[j].id = detail.answerOptions[j].id
          /\ choices_norm[j].html = detail.answerOptions[j].content

\* C14 as stated: the key of the choice at every position j is the j-th
\* letter of the alphabet, and the choices keep the order and the count of
\* the options.
C14_PositionalLetters ==
    returned
        => /\ SameOrderAndCount
           /\ \A j \in DOMAIN choices_norm :
                 j <= Len(alpha) /\ choices_norm[j].key = alpha[j]

\* C14 as amended: the key of the choice at position j is the j-th letter of
\* the alphabet for the first 26 options, whatever their markup and
\* identifiers hold, and is None past them; the choices keep the order and
\* the count of the options.
C14_PositionalLettersInAlphabet ==
    returned
        => /\ SameOrderAndCount
           /\ \A j \in DOMAIN choices_norm :
                 IF j <= Len(alpha) THEN choices_norm[j].key = alpha[j]
                 ELSE choices_norm[j].key = None

\* C14 witness: the first choice, keyed A, has the letter B for its text, and
\* the second, keyed B, has the identifier A and the letter C for its text.
C14_Witness ==
    /\ returned
    /\ Len(choices_norm) >= 2
    /\ choices_norm[1].key = "A"
    /\ choices_norm[1].text = <<"B">>
    /\ choices_norm[2].key = "B"
    /\ choices_norm[2].id = "A"
    /\ choices_norm[2].text = <<"C">>

====
